---- MODULE Spec2Model ----
(***************************************************************************)
(* Model of the MQ135 gas sensor driver (src/MQ135.cpp).                   *)
(*                                                                         *)
(* Numbers.  The driver computes in floating point.  The model keeps       *)
(*   - _rzero as an integer number of hundredths of a kOhm, so that the    *)
(*     +-0.1 step of calibrateRZero is exactly +-10 (float rounding of the *)
(*     accumulated sum is not modelled);                                   *)
(*   - every other float as a tagged value: NaN, -inf, a negative finite   *)
(*     number, zero, a positive finite number or +inf.  A finite non-zero  *)
(*     number carries l = 65536 * log2 |x| (a logarithmic fixed point      *)
(*     format), so products, quotients and pow() are computed on l, and    *)
(*     the IEEE special cases of /, * and pow() are kept as they are.      *)
(***************************************************************************)
EXTENDS Integers, Sequences, FiniteSets, TLC

(***************************************************************************)
(* Fixed point logarithm                                                   *)
(***************************************************************************)
FRAC == 2^16

\* round(65536 * log2(1 + i/64)) for i = 0..64
LogTab ==
  << 0, 1466, 2909, 4331, 5732, 7112, 8473, 9814, 11136, 12440, 13727,
     14996, 16248, 17484, 18704, 19909, 21098, 22272, 23433, 24579, 25711,
     26830, 27936, 29029, 30109, 31178, 32234, 33279, 34312, 35334, 36346,
     37346, 38336, 39316, 40286, 41246, 42196, 43137, 44068, 44990, 45904,
     46809, 47705, 48593, 49472, 50344, 51207, 52063, 52911, 53751, 54584,
     55410, 56229, 57040, 57845, 58643, 59434, 60219, 60997, 61769, 62534,
     63294, 64047, 64794, 65536 >>

\* The operations on numbers are TLA+ functions: a function is applied to
\* the value of its argument, as a C function is.

\* floor(log2(n)) for 1 <= n < 2^30
FloorLog2 == [n \in Nat |-> CHOOSE e \in 0..29 : 2^e <= n /\ n < 2^(e+1)]

\* the mantissa n / 2^e - 1 of n, in units of 2^-16
Mant16 ==
  [n \in Nat |->
     LET e == FloorLog2[n]
     IN  IF e <= 16 THEN (n - 2^e) * 2^(16 - e) ELSE (n - 2^e) \div 2^(e - 16)]

\* interpolation in LogTab between the entries around mantissa m
Interpolate ==
  [m \in Nat |->
     LogTab[m \div 1024 + 1]
       + ((LogTab[m \div 1024 + 2] - LogTab[m \div 1024 + 1]) * (m % 1024)) \div 1024]

\* 65536 * log2(n) for an integer 1 <= n < 2^30: table look-up with linear
\* interpolation, strictly increasing on the integers the driver produces
Log2Fix == [n \in Nat |-> FloorLog2[n] * FRAC + Interpolate[Mant16[n]]]

(***************************************************************************)
(* Float values                                                            *)
(***************************************************************************)
Val == [k : {"nan", "pinf", "ninf", "zero", "pos", "neg", "none", "true", "false"},
        l : Int]

NaN    == [k |-> "nan",  l |-> 0]
PInf   == [k |-> "pinf", l |-> 0]
NInf   == [k |-> "ninf", l |-> 0]
Zero   == [k |-> "zero", l |-> 0]
Pos(x) == [k |-> "pos",  l |-> x]
Neg(x) == [k |-> "neg",  l |-> x]

\* the float nearest to n / d, for integers n and d > 0
FromRatio(n, d) ==
  IF n = 0 THEN Zero
  ELSE IF n > 0 THEN Pos(Log2Fix[n] - Log2Fix[d])
  ELSE Neg(Log2Fix[0 - n] - Log2Fix[d])

IsFinite(x) == x.k \in {"neg", "zero", "pos"}
\* sign of a value; the model's zero is +0
Sign(x) == IF x.k \in {"neg", "ninf"} THEN -1 ELSE 1
Signed(s, l) == IF s > 0 THEN Pos(l) ELSE Neg(l)
SignedInf(s) == IF s > 0 THEN PInf ELSE NInf

\* IEEE x / y
FDivV ==
  [x \in Val, y \in Val |->
     IF x.k = "nan" \/ y.k = "nan" THEN NaN
     ELSE IF ~IsFinite(x)
          THEN IF ~IsFinite(y) THEN NaN ELSE SignedInf(Sign(x) * Sign(y))
     ELSE IF ~IsFinite(y) THEN Zero
     ELSE IF y.k = "zero"
          THEN IF x.k = "zero" THEN NaN ELSE SignedInf(Sign(x))
     ELSE IF x.k = "zero" THEN Zero
     ELSE Signed(Sign(x) * Sign(y), x.l - y.l)]
FDiv(x, y) == FDivV[x, y]

\* IEEE x * y
FMulV ==
  [x \in Val, y \in Val |->
     IF x.k = "nan" \/ y.k = "nan" THEN NaN
     ELSE IF ~IsFinite(x) \/ ~IsFinite(y)
          THEN IF x.k = "zero" \/ y.k = "zero" THEN NaN
               ELSE SignedInf(Sign(x) * Sign(y))
     ELSE IF x.k = "zero" \/ y.k = "zero" THEN Zero
     ELSE Signed(Sign(x) * Sign(y), x.l + y.l)]
FMul(x, y) == FMulV[x, y]

\* position of a value on the extended real line (NaN has none)
Rank(x) ==
  CASE x.k = "ninf" -> 0
    [] x.k = "neg"  -> 1
    [] x.k = "zero" -> 2
    [] x.k = "pos"  -> 3
    [] x.k = "pinf" -> 4
    [] OTHER        -> 5

\* how x compares to y: "lt", "eq", "gt", or "un" (unordered) as soon as one
\* of them is NaN
Compare ==
  [x \in Val, y \in Val |->
     IF Rank(x) = 5 \/ Rank(y) = 5 THEN "un"
     ELSE IF Rank(x) < Rank(y) THEN "lt"
     ELSE IF Rank(x) > Rank(y) THEN "gt"
     ELSE IF x.l = y.l \/ x.k \notin {"pos", "neg"} THEN "eq"
     ELSE IF (x.k = "pos") = (x.l < y.l) THEN "lt"
     ELSE "gt"]

\* the C comparisons: each is false as soon as an operand is NaN
FLt(x, y) == Compare[x, y] = "lt"
FEq(x, y) == Compare[x, y] = "eq"
FGt(x, y) == Compare[x, y] = "gt"
FLe(x, y) == Compare[x, y] \in {"lt", "eq"}
FGe(x, y) == Compare[x, y] \in {"gt", "eq"}

\* x^(n/d) computed on the logarithm: floor(l * n / d), without overflow
ScaleLog(l, n, d) == (l \div d) * n + ((l % d) * n) \div d

\* pow(x, n/d) for a non-integer exponent n/d (d > 0, n # 0), with the special
\* cases of the C library: a negative finite base gives NaN, pow(+-0, y < 0)
\* is +inf, pow(+-inf, y < 0) is +0
powV ==
  [x \in Val, n \in Int, d \in Int |->
     CASE x.k = "pos"              -> Pos(ScaleLog(x.l, n, d))
       [] x.k = "zero"             -> IF n < 0 THEN PInf ELSE Zero
       [] x.k \in {"pinf", "ninf"} -> IF n < 0 THEN Zero ELSE PInf
       [] OTHER                    -> NaN]
pow(x, n, d) == powV[x, n, d]

(***************************************************************************)
(* Constants of the driver                                                 *)
(***************************************************************************)
CENTI    == 10^2
MILLI    == 10^3
CORSCALE == 10^5

\* MQ135.h (the library's defaults)
RZERO   == 7663       \* 76.63 kOhm, in hundredths
PARA    == 116602     \* 116.6020682, in thousandths
PARB    == 2769       \* 2.769034857, in thousandths
ATMOCO2 == 397130     \* 397.13 ppm, in thousandths
CORA    == 35         \* 0.00035, in 1e-5
CORB    == 2718       \* 0.02718, in 1e-5
CORC    == 139538     \* 1.39538, in 1e-5
CORD    == 180        \* 0.0018,  in 1e-5

\* MQ135.cpp
StepSize     == 10      \* the 0.1 of calibrateRZero, in hundredths
MaxIter      == 10000   \* it < 10000
SuccessLimit == 1000    \* it < 1000
YieldEvery   == 30      \* it % 30 == 0

(***************************************************************************)
(* Conversions (pure in the sample they are given)                         *)
(* A sample s = <<a, b>> is what the two analogRead calls of one           *)
(* getResistance return: a on the sensor pin, b on the reference pin 33.   *)
(***************************************************************************)
\* CORA * t * t - CORB * t + CORC - (h-33.)*CORD
getCorrectionFactor(t, h) ==
  FromRatio(CORA * t * t - CORB * t + CORC - (h - 33) * CORD, CORSCALE)

\* val = a * 2.450 / 4095., ref_val = b * 2.450 / 4095.,
\* Rs = 3. * ref_val * 10.0 / val - 2.
\* The factor 2.450 / 4095 cancels in ref_val / val, so Rs = (30 b - 2 a) / a;
\* with a = 0 the quotient is +inf (b > 0) or 0/0 = NaN (b = 0).
getResistance(s) ==
  LET a == s[1]
      b == s[2]
  IN  IF a = 0 THEN (IF b = 0 THEN NaN ELSE PInf)
      ELSE FromRatio(3 * b * 10 - 2 * a, a)

getCorrectedResistance(s, t, h) ==
  FDiv(getResistance(s), getCorrectionFactor(t, h))

RZeroVal(rz) == FromRatio(rz, CENTI)

\* PARA * pow((getResistance()/_rzero), -PARB)
getPPM(s, rz) ==
  FMul(FromRatio(PARA, MILLI),
       pow(FDiv(getResistance(s), RZeroVal(rz)), 0 - PARB, MILLI))

\* PARA * pow((getCorrectedResistance(t, h)/_rzero), -PARB)
getCorrectedPPM(s, rz, t, h) ==
  FMul(FromRatio(PARA, MILLI),
       pow(FDiv(getCorrectedResistance(s, t, h), RZeroVal(rz)), 0 - PARB, MILLI))

\* getResistance() * pow((ATMOCO2/PARA), (1./PARB))
getRZero(s) ==
  FMul(getResistance(s),
       pow(FDiv(FromRatio(ATMOCO2, MILLI), FromRatio(PARA, MILLI)), MILLI, PARB))

\* getCorrectedResistance(t, h) * pow((ATMOCO2/PARA), (1./PARB))
getCorrectedRZero(s, t, h) ==
  FMul(getCorrectedResistance(s, t, h),
       pow(FDiv(FromRatio(ATMOCO2, MILLI), FromRatio(PARA, MILLI)), MILLI, PARB))

(***************************************************************************)
(* calibrateRZero, piece by piece                                          *)
(***************************************************************************)
\* a direction that leaves _rzero alone when the measurement is on target
Direction_eq(m, cal) ==
  IF FGt(m, cal) THEN 0 - StepSize ELSE IF FEq(m, cal) THEN 0 ELSE StepSize

\* step = (measurement > cal_ppm) ? -.1 : +.1
Direction(m, cal) == IF FGt(m, cal) THEN 0 - StepSize ELSE StepSize

\* a stop test with strict comparisons
StopTest_strict(st, m, cal) == IF st < 0 THEN FLt(m, cal) ELSE FGt(m, cal)

\* if (step <0) { if (measurement <= cal_ppm) break; }
\* else         { if (measurement >= cal_ppm) break; }
StopTest(st, m, cal) == IF st < 0 THEN FLe(m, cal) ELSE FGe(m, cal)

\* a loop test that lets one more iteration through
LoopCond_le(i) == i <= MaxIter

\* for (...; it<10000 ; ...)
LoopCond(i) == i < MaxIter

\* a yield at the end of every block of 30 iterations
ShouldYield_last(i) == i % YieldEvery = YieldEvery - 1

\* if (it % 30 == 0) vTaskDelay(1)
ShouldYield(i) == i % YieldEvery = 0

\* success for every index below the loop's own bound
Succeeded_cap(i) == i < MaxIter

\* if ( it < 1000 ) return true; else return false;
Succeeded(i) == i < SuccessLimit

(***************************************************************************)
(* The environment: the analog sampler and the callers' inputs             *)
(***************************************************************************)
MaxCalls  == 1     \* calibrateRZero calls in one behaviour of Spec
MaxRepeat == 3     \* repeated calls in one behaviour of SpecRepeat

SensorPin == 34

\* <<sensor reading, reference reading>>: Rs = 49 kOhm, and a zero sensor
\* reading (Rs = +inf)
Samples == { <<1000, 1700>>, <<0, 1700>> }
\* readings the conversions are also tried on: 0/0, Rs = 0, Rs = -2
MoreSamples == Samples \cup { <<0, 0>>, <<1500, 100>>, <<1500, 0>> }

\* what analogRead returns over one calibrateRZero call: the same sample on
\* every read, or two samples in alternation
Samplers ==
  { [kind |-> "const", p |-> s, q |-> s] : s \in Samples } \cup
  { [kind |-> "alt", p |-> ss[1], q |-> ss[2]] :
       ss \in { x \in Samples \X Samples : x[1] # x[2] } }

\* the sample of the n-th getResistance of a call (n = 0, 1, ...)
SampleAt(a, n) == IF a.kind = "alt" /\ n % 2 = 1 THEN a.q ELSE a.p

Targets == { FromRatio(0, 1), FromRatio(400, 1), FromRatio(8000, 1) }
\* <<t, h>>: the climates the conversions are tried on, and the one the
\* calibrations run in
Climates == { <<20, 33>>, <<30, 60>> }
CalClimates == { <<20, 33>> }

None       == [k |-> "none", l |-> 0]
RetBool(b) == [k |-> IF b THEN "true" ELSE "false", l |-> 0]
NoArgs     == [cal_ppm |-> None, t |-> 0, h |-> 0]

(***************************************************************************)
(* State                                                                   *)
(***************************************************************************)
VARIABLES
  pin,          \* _pin
  rzero,        \* _rzero, in hundredths
  pc,           \* "idle", or the position inside calibrateRZero:
                \* "loop" (at the loop test), "yield" (in vTaskDelay),
                \* "break" (left the loop by break)
  op,           \* the operation running or last run
  ret,          \* what the last operation returned
  args,         \* calibrateRZero's cal_ppm, t, h
  adc,          \* the sampler during the call
  measurement,  \* calibrateRZero's locals
  step,
  it,
  rzero0,       \* history: _rzero when the call began
  m0,           \* history: the call's first measurement
  broke,        \* history: the loop was left by break
  yields,       \* history: vTaskDelay calls of this call
  ncalls,       \* history: calibrateRZero calls so far
  hist          \* history (SpecRepeat): the earlier calls, oldest first

vars == << pin, rzero, pc, op, ret, args, adc, measurement, step, it,
           rzero0, m0, broke, yields, ncalls, hist >>

callvars == << args, adc, measurement, step, it, rzero0, m0, broke, yields,
               ncalls, hist >>

\* MQ135::MQ135(pin); _rzero starts at the default
Init ==
  /\ pin = SensorPin
  /\ rzero = RZERO
  /\ pc = "idle"
  /\ op = "MQ135"
  /\ ret = None
  /\ args = NoArgs
  /\ adc = [kind |-> "const", p |-> <<0, 0>>, q |-> <<0, 0>>]
  /\ measurement = None
  /\ step = 0
  /\ it = 0
  /\ rzero0 = RZERO
  /\ m0 = None
  /\ broke = FALSE
  /\ yields = 0
  /\ ncalls = 0
  /\ hist = << >>

(***************************************************************************)
(* The read-only operations                                                *)
(***************************************************************************)
\* a read-only operation that puts the default back into _rzero
Returns_reset(name, v) ==
  /\ pc = "idle"
  /\ op' = name
  /\ ret' = v
  /\ rzero' = RZERO
  /\ UNCHANGED << pin, pc, callvars >>

Returns(name, v) ==
  /\ pc = "idle"
  /\ op' = name
  /\ ret' = v
  /\ UNCHANGED << pin, rzero, pc, callvars >>

CallGetCorrectionFactor ==
  \E c \in Climates : Returns("getCorrectionFactor", getCorrectionFactor(c[1], c[2]))

CallGetResistance ==
  \E s \in MoreSamples : Returns("getResistance", getResistance(s))

CallGetCorrectedResistance ==
  \E s \in MoreSamples, c \in Climates :
     Returns("getCorrectedResistance", getCorrectedResistance(s, c[1], c[2]))

CallGetPPM ==
  \E s \in MoreSamples : Returns("getPPM", getPPM(s, rzero))

CallGetCorrectedPPM ==
  \E s \in MoreSamples, c \in Climates :
     Returns("getCorrectedPPM", getCorrectedPPM(s, rzero, c[1], c[2]))

CallGetRZero ==
  \E s \in MoreSamples : Returns("getRZero", getRZero(s))

CallGetCorrectedRZero ==
  \E s \in MoreSamples, c \in Climates :
     Returns("getCorrectedRZero", getCorrectedRZero(s, c[1], c[2]))

(***************************************************************************)
(* calibrateRZero                                                          *)
(***************************************************************************)
\* lines 137-141: the first measurement, the direction, it = 0
calibrateRZero_begin(cal, t, h, sampler) ==
  LET m == getCorrectedPPM(SampleAt(sampler, 0), rzero, t, h)
  IN  /\ pc = "idle"
      /\ pc' = "loop"
      /\ op' = "calibrateRZero"
      /\ ret' = None
      /\ args' = [cal_ppm |-> cal, t |-> t, h |-> h]
      /\ adc' = sampler
      /\ measurement' = m
      /\ m0' = m
      /\ step' = Direction(m, cal)
      /\ it' = 0
      /\ rzero0' = rzero
      /\ broke' = FALSE
      /\ yields' = 0
      /\ ncalls' = ncalls + 1
      /\ UNCHANGED << pin, rzero >>

\* lines 141-153: one pass of the loop body, up to the break, the call of
\* vTaskDelay or the it++
calibrateRZero_iter ==
  LET r == rzero + step
      m == getCorrectedPPM(SampleAt(adc, it + 1), r, args.t, args.h)
  IN  /\ pc = "loop"
      /\ LoopCond(it)
      /\ rzero' = r
      /\ measurement' = m
      /\ IF StopTest(step, m, args.cal_ppm)
         THEN pc' = "break" /\ UNCHANGED << it, yields >>
         ELSE IF ShouldYield(it)
              THEN pc' = "yield" /\ yields' = yields + 1 /\ UNCHANGED it
              ELSE pc' = "loop" /\ it' = it + 1 /\ UNCHANGED yields
      /\ UNCHANGED << pin, op, ret, args, adc, step, rzero0, m0, broke, ncalls,
                      hist >>

\* line 152: vTaskDelay(1) returns, then it++
vTaskDelay_return ==
  /\ pc = "yield"
  /\ pc' = "loop"
  /\ it' = it + 1
  /\ UNCHANGED << pin, rzero, op, ret, args, adc, measurement, step,
                  rzero0, m0, broke, yields, ncalls, hist >>

\* a return that restores _rzero when the calibration failed
calibrateRZero_return_rollback ==
  /\ pc = "break" \/ (pc = "loop" /\ ~LoopCond(it))
  /\ broke' = (pc = "break")
  /\ ret' = RetBool(Succeeded(it))
  /\ rzero' = IF Succeeded(it) THEN rzero ELSE rzero0
  /\ pc' = "idle"
  /\ UNCHANGED << pin, op, args, adc, measurement, step, it,
                  rzero0, m0, yields, ncalls, hist >>

\* lines 155-161: the loop is over (by break or by its test), the result
calibrateRZero_return ==
  /\ pc = "break" \/ (pc = "loop" /\ ~LoopCond(it))
  /\ broke' = (pc = "break")
  /\ ret' = RetBool(Succeeded(it))
  /\ pc' = "idle"
  /\ UNCHANGED << pin, rzero, op, args, adc, measurement, step, it,
                  rzero0, m0, yields, ncalls, hist >>

(***************************************************************************)
(* Specifications                                                          *)
(***************************************************************************)
Calibrate ==
  /\ ncalls < MaxCalls
  /\ \E cal \in Targets, c \in CalClimates, a \in Samplers :
        calibrateRZero_begin(cal, c[1], c[2], a)
  /\ UNCHANGED hist

\* the same call again, with a sampler that returns one sample
Recalibrate ==
  /\ ncalls < MaxRepeat
  /\ \E cal \in Targets, c \in CalClimates, a \in Samplers :
        /\ a.kind = "const"
        /\ ncalls > 0 => (a = adc /\ args = [cal_ppm |-> cal, t |-> c[1], h |-> c[2]])
        /\ calibrateRZero_begin(cal, c[1], c[2], a)
  /\ hist' = IF ncalls = 0 THEN << >>
             ELSE Append(hist, [broke |-> broke, it |-> it, rzero0 |-> rzero0])

Next ==
  \/ CallGetCorrectionFactor
  \/ CallGetResistance
  \/ CallGetCorrectedResistance
  \/ CallGetPPM
  \/ CallGetCorrectedPPM
  \/ CallGetRZero
  \/ CallGetCorrectedRZero
  \/ Calibrate
  \/ calibrateRZero_iter
  \/ vTaskDelay_return
  \/ calibrateRZero_return

Spec == Init /\ [][Next]_vars

NextRepeat ==
  \/ Recalibrate
  \/ calibrateRZero_iter
  \/ vTaskDelay_return
  \/ calibrateRZero_return

SpecRepeat == Init /\ [][NextRepeat]_vars

\* a running call is never abandoned: the loop goes on, vTaskDelay returns
FairSpec ==
  /\ Spec
  /\ WF_vars(calibrateRZero_iter)
  /\ WF_vars(vTaskDelay_return)
  /\ WF_vars(calibrateRZero_return)

(***************************************************************************)
(* Properties                                                              *)
(***************************************************************************)
\* a calibrateRZero call has returned and nothing ran since
Done == pc = "idle" /\ op = "calibrateRZero"

Returned(b) == ret = RetBool(b)

\* the call used a sampler that returns the same sample on every read
FixedSampler == adc.kind = "const"

\* the corrected ppm the call's fixed sampler gives at _rzero = rz
PPMAt(rz) == getCorrectedPPM(adc.p, rz, args.t, args.h)

\* C1: after any sequence of operations the stored rZero is strictly
\* positive.
C1_RZeroPositive == rzero > 0

\* C2: rZero is changed by calibrateRZero only (every other operation leaves
\* it as it is, whatever its inputs and samples), and no operation changes
\* the channel.
C2_OnlyCalibrateChangesRZero ==
  [][ /\ pin' = pin
      /\ op' # "calibrateRZero" => rzero' = rzero ]_vars

C2_Witness ==
  /\ op \in { "getCorrectionFactor", "getResistance", "getCorrectedResistance",
              "getPPM", "getCorrectedPPM", "getRZero", "getCorrectedRZero" }
  /\ ncalls > 0
  /\ rzero # RZERO
  /\ ret.k = "pos"

\* C3: calibrateRZero returns success exactly when its loop was left by the
\* break at an index below 1000; it returns failure both when the loop ran
\* its 10000 iterations and when the break came at an index in 1000..9999.
C3_SuccessIffEarlyBreak ==
  Done =>
    /\ Returned(TRUE) \/ Returned(FALSE)
    /\ Returned(TRUE) <=> (broke /\ it < SuccessLimit)
    /\ ~broke => it = MaxIter
    /\ broke => it < MaxIter

C3_Witness == Done /\ broke /\ it >= SuccessLimit /\ Returned(FALSE)

\* C4 as stated: over N iterations of the loop, vTaskDelay is called exactly
\* floor(N / 30) times (N: the loop passes begun so far in the call).
C4_YieldFloor ==
  op = "calibrateRZero" => yields = ((rzero - rzero0) \div step) \div YieldEvery

\* C4 amended: vTaskDelay is called once in every loop pass whose index is a
\* multiple of 30 and that does not break, so after k passes that did not
\* break it has been called ceil(k / 30) times; nothing else calls it.
C4_YieldCadence ==
  yields = IF pc = "yield" THEN it \div YieldEvery + 1
           ELSE (it + YieldEvery - 1) \div YieldEvery

C4_Witness == Done /\ ~broke /\ it = MaxIter /\ yields = 334

\* t lies between x and y (in either order)
Between(x, t, y) == (FLe(x, t) /\ FLe(t, y)) \/ (FLe(y, t) /\ FLe(t, x))

\* C5: with a sampler that returns the same sample on every read (positive
\* resistance, positive correction factor), whenever calibrateRZero stops by
\* crossing the target, the target lies between the corrected ppm at the
\* final rZero and the corrected ppm at the rZero one step earlier.
C5_TargetBracketed ==
  ( /\ Done
    /\ FixedSampler
    /\ getResistance(adc.p).k = "pos"
    /\ getCorrectionFactor(args.t, args.h).k = "pos"
    /\ broke )
  => Between(PPMAt(rzero - step), args.cal_ppm, PPMAt(rzero))

\* the fixed sampler's corrected ppm never reaches the target in the chosen
\* direction, at any of the 10000 values rZero can take
NeverReaches ==
  \A k \in 1..MaxIter : ~StopTest(step, PPMAt(rzero0 + k * step), args.cal_ppm)

\* C6: with a fixed sampler whose corrected ppm never reaches the target in
\* the chosen direction, calibrateRZero runs all 10000 iterations, returns
\* failure and leaves rZero 10000 steps away from where it was: no rollback.
C6_ExhaustedNoRollback ==
  (Done /\ FixedSampler /\ NeverReaches)
  => /\ ~broke
     /\ it = MaxIter
     /\ Returned(FALSE)
     /\ rzero = rzero0 + MaxIter * step

C6_Witness ==
  /\ Done /\ FixedSampler /\ NeverReaches
  /\ step < 0
  /\ rzero = RZERO - MaxIter * StepSize

\* C7: every calibrateRZero call changes rZero, also when the first
\* measurement already equals the target: the final rZero is the initial one
\* plus the signed step times the number of adjustments, which is the exit
\* index + 1 after a break and 10000 after exhaustion.
C7_AlwaysAdjusts ==
  Done =>
    /\ step \in { StepSize, 0 - StepSize }
    /\ rzero # rzero0
    /\ rzero = rzero0 + step * (IF broke THEN it + 1 ELSE MaxIter)

C7_Witness ==
  /\ Done
  /\ FEq(m0, args.cal_ppm)
  /\ broke /\ it = 0
  /\ rzero = rzero0 + StepSize

\* C8: every calibrateRZero call ends, after at most 10000 loop iterations,
\* whatever the target, the climate, the initial rZero and the samples.
C8_Terminates ==
  /\ [](it <= MaxIter)
  /\ (pc # "idle") ~> (pc = "idle")

\* a call fed alternating samples, a zero sensor reading among them, that
\* went through 1000 iterations or more and returned
C8_Witness ==
  /\ Done
  /\ adc.kind = "alt"
  /\ \E n \in {0, 1} : SampleAt(adc, n)[1] = 0
  /\ it >= SuccessLimit

\* C9: the direction is chosen once, from the first measurement (down if it
\* is strictly above the target, up otherwise); after that every iteration
\* moves rZero by the same signed step, takes a fresh sample after the move,
\* and stops on 'measurement <= target' when going down and on
\* 'measurement >= target' when going up.
C9_DirectionFixed ==
  /\ [](op = "calibrateRZero" =>
          step = IF FGt(m0, args.cal_ppm) THEN 0 - StepSize ELSE StepSize)
  /\ [][ (op = "calibrateRZero" /\ op' = "calibrateRZero" /\ pc # "idle") =>
           /\ step' = step
           /\ rzero' # rzero =>
                /\ rzero' = rzero + step
                /\ measurement' =
                     getCorrectedPPM(SampleAt(adc, it + 1), rzero', args.t, args.h)
                /\ pc' = "break" <=>
                     \/ step < 0 /\ FLe(measurement', args.cal_ppm)
                     \/ step > 0 /\ FGe(measurement', args.cal_ppm) ]_vars

\* going up since the first measurement was below the target, the loop is
\* stopped at a later iteration by a sample on the other side
C9_Witness ==
  /\ pc = "break"
  /\ adc.kind = "alt"
  /\ it > 0
  /\ step = StepSize
  /\ FLt(m0, args.cal_ppm)
  /\ FLt(args.cal_ppm, measurement)

\* rZero as the first call that stopped by crossing left it
Anchor ==
  LET j == CHOOSE i \in 1..Len(hist) :
             hist[i].broke /\ \A i2 \in 1..(i - 1) : ~hist[i2].broke
  IN  IF j < Len(hist) THEN hist[j + 1].rzero0 ELSE rzero0

\* C10: with a fixed sampler, after one call that stopped by crossing the
\* target, every further call with the same arguments stops at index 0,
\* returns success and moves rZero by one step, and rZero stays within one
\* step of the value the first of these calls left.
C10_RepeatBounded ==
  (Done /\ FixedSampler /\ \E i \in 1..Len(hist) : hist[i].broke)
  => /\ broke /\ it = 0
     /\ Returned(TRUE)
     /\ rzero - rzero0 \in { StepSize, 0 - StepSize }
     /\ rzero - Anchor \in { 0 - StepSize, 0, StepSize }

====
